---------------------------- MODULE Spec2Model ----------------------------
(***************************************************************************)
(* The resource lifecycle of src/app.py: the create / read / update /      *)
(* delete handlers of User, Character, Planet and Vehicle over a           *)
(* relational store.                                                       *)
(*                                                                         *)
(* No handler reads or writes the table of another entity type, so a       *)
(* behaviour exercises the handlers of one entity type (resource), chosen  *)
(* in Init; the tables of the other types stay empty in that behaviour.    *)
(* The Favorite endpoints are read-only and are left out.                  *)
(***************************************************************************)
EXTENDS Integers, FiniteSets, Sequences, Bags, TLC

VARIABLES
    resource,   \* the entity type whose endpoints this behaviour calls
    db,         \* db[t]: the committed table of type t, id -> row
    assigned,   \* history: the ids the store has ever handed out
    deleted,    \* history: ids deleted with 200 and no insert since
    request,    \* the last request served
    response,   \* its status and JSON payload
    inflight,   \* the handlers stopped between their look-ups and their commit (a bag)
    raced       \* history: the values two look-ups passed for before either commit

vars == <<resource, db, assigned, deleted, request, response, inflight, raced>>

-----------------------------------------------------------------------------
(* Bounds *)

MaxId == 2          \* the store hands out identifiers 1..MaxId
MaxWorkers == 2     \* handlers in flight at once in SpecRace

Ids == 1..MaxId

-----------------------------------------------------------------------------
(* Entity metadata, as the handlers spell it out *)

Types == {"User", "Character", "Planet", "Vehicle"}

\* The attributes the handlers assign, in the order update_* assigns them.
Fields(t) ==
    CASE t = "User"      -> <<"email", "password", "first_name", "last_name">>
      [] t = "Character" -> <<"name", "gender", "height", "mass">>
      [] t = "Planet"    -> <<"name", "climate", "population", "terrain">>
      [] t = "Vehicle"   -> <<"name", "cargo_capacity", "length", "model">>

FieldSet(t) == {Fields(t)[k] : k \in 1..Len(Fields(t))}

\* required_fields of create_*; the same keys are read as body[...] by update_*.
RequiredFields(t) == IF t = "User" THEN {"email", "password"} ELSE {"name"}

\* The column the handlers look up with filter_by before they write.
UniqueField(t) == IF t = "User" THEN "email" ELSE "name"

OptionalFields(t) == FieldSet(t) \ RequiredFields(t)

-----------------------------------------------------------------------------
(* JSON values and request bodies *)

None == "None"                       \* Python None / JSON null
Falsy(v) == v \in {None, ""}         \* `not v`

\* The values a request may give a field. "" is the falsy value (None in a
\* body takes the same branches as "" in every handler); it is sent in the
\* unique field, which every entity type has.
FieldVals(t, f) ==
    IF f = UniqueField(t) THEN {"", "a", "b"}
    ELSE IF f \in RequiredFields(t) THEN {"p"}
    ELSE {"x"}

\* request.get_json(): JSON null, or a JSON object (possibly with no fields).
JsonNull == [isNull |-> TRUE, obj |-> <<>>]
JsonObj(o) == [isNull |-> FALSE, obj |-> o]

\* `not body`
BodyFalsy(body) == body.isNull \/ DOMAIN body.obj = {}
\* `field in body`
Has(body, f) == f \in DOMAIN body.obj
\* body.get(field)
Get(body, f) == IF Has(body, f) THEN body.obj[f] ELSE None

\* The key sets of the bodies sent: any subset of the required fields, with
\* none or all of the optional fields (each optional field is read by its
\* own body.get, independently of the others).
KeySets(t) ==
    {R \cup O : R \in SUBSET RequiredFields(t), O \in {{}, OptionalFields(t)}}

ObjectsOver(t, D) ==
    {o \in [D -> {"", "a", "b", "p", "x"}] : \A f \in D : o[f] \in FieldVals(t, f)}

BodiesOf ==
    [t \in Types |->
        {JsonNull} \cup {JsonObj(o) : o \in UNION {ObjectsOver(t, D) : D \in KeySets(t)}}]

Bodies(t) == BodiesOf[t]

-----------------------------------------------------------------------------
(* The store: what the handlers ask of the ORM *)

\* Model.query.get(id) finds a row, or returns None
Exists(table, id) == id \in DOMAIN table

\* Model.query.filter_by(f = v): the ids of the matching rows; .first() is
\* one of them, or None when there is none.
FilterBy(table, f, v) == {i \in DOMAIN table : table[i][f] = v}

\* The identifiers the store may give a new row (SQLite hands out max+1 and
\* so may reuse the identifier of a deleted row, PostgreSQL never reuses
\* one): any identifier no committed row holds.
NewIds(table) == Ids \ DOMAIN table

\* row.serialize(): every field by name, and the identifier.
Serialize(id, row) == [id |-> id, fields |-> row]

Reply(status, table, payload) ==
    [status |-> status, table |-> table, payload |-> payload]

-----------------------------------------------------------------------------
(* create_*: POST /{resource} *)

\* Mutant: create_* without the filter_by look-up.
CreateCheck_NoLookup(table, t, body) ==
    IF BodyFalsy(body) THEN 400
    ELSE IF \E f \in RequiredFields(t) : ~Has(body, f) \/ Falsy(body.obj[f])
         THEN 422
    ELSE 0

\* The checks before the write: 400, 422, 409, or 0 when they all pass.
CreateCheck(table, t, body) ==
    IF BodyFalsy(body) THEN 400
    ELSE IF \E f \in RequiredFields(t) : ~Has(body, f) \/ Falsy(body.obj[f])
         THEN 422
    ELSE IF FilterBy(table, UniqueField(t), body.obj[UniqueField(t)]) # {}
         THEN 409
    ELSE 0

\* Model(required = body[...], optional = body.get(...))
NewRow(t, body) ==
    [f \in FieldSet(t) |-> IF f \in RequiredFields(t) THEN body.obj[f] ELSE Get(body, f)]

\* The try block: add and commit; a failing commit is rolled back.
CreateWrite(table, t, body, nid, fail) ==
    IF fail THEN Reply(500, table, {})
    ELSE LET table2 == table @@ (nid :> NewRow(t, body))
         IN  Reply(201, table2, {Serialize(nid, table2[nid])})

-----------------------------------------------------------------------------
(* update_*: PUT /{resource}/{id} *)

\* Mutant: update_* without the filter_by look-up.
UpdateCheck_NoLookup(table, t, id, body) ==
    IF ~Exists(table, id) THEN 404
    ELSE IF BodyFalsy(body) THEN 400
    ELSE 0

\* Mutant: update_* looks the value up even when it is the row's own.
UpdateCheck_OwnIncluded(table, t, id, body) ==
    IF ~Exists(table, id) THEN 404
    ELSE IF BodyFalsy(body) THEN 400
    ELSE IF /\ Has(body, UniqueField(t))
            /\ FilterBy(table, UniqueField(t), body.obj[UniqueField(t)]) # {}
         THEN 409
    ELSE 0

\* The checks before the write: 404, 400, 409, or 0 when they all pass.
UpdateCheck(table, t, id, body) ==
    IF ~Exists(table, id) THEN 404
    ELSE IF BodyFalsy(body) THEN 400
    ELSE IF /\ Has(body, UniqueField(t))
            /\ body.obj[UniqueField(t)] # table[id][UniqueField(t)]
            /\ FilterBy(table, UniqueField(t), body.obj[UniqueField(t)]) # {}
         THEN 409
    ELSE 0

\* Mutant: an optional field the body leaves out keeps its value (a merge).
RECURSIVE Assign_Merge(_, _, _, _)
Assign_Merge(t, obj, body, k) ==
    IF k > Len(Fields(t)) THEN [raised |-> FALSE, obj |-> obj]
    ELSE LET f == Fields(t)[k]
         IN  IF f \in RequiredFields(t) /\ ~Has(body, f)
             THEN [raised |-> TRUE, obj |-> obj]
             ELSE Assign_Merge(t, [obj EXCEPT ![f] = IF Has(body, f) THEN body.obj[f] ELSE @],
                               body, k + 1)

\* The assignments of the try block, in order, on the loaded object: a
\* required key is read as body[key] and raises KeyError when the body lacks
\* it, the others are read with body.get.
RECURSIVE Assign(_, _, _, _)
Assign(t, obj, body, k) ==
    IF k > Len(Fields(t)) THEN [raised |-> FALSE, obj |-> obj]
    ELSE LET f == Fields(t)[k]
         IN  IF f \in RequiredFields(t) /\ ~Has(body, f)
             THEN [raised |-> TRUE, obj |-> obj]
             ELSE Assign(t, [obj EXCEPT ![f] = Get(body, f)], body, k + 1)

\* Mutant: commit writes every column of the object.
Flush_All(row, loaded, obj) == obj

\* What commit writes: the columns whose value differs from the loaded one.
Flush(row, loaded, obj) ==
    [f \in DOMAIN row |-> IF obj[f] # loaded[f] THEN obj[f] ELSE row[f]]

\* Mutant: no rollback, the assignments made before the failure are written.
UpdateWrite_NoRollback(table, t, id, loaded, body, fail) ==
    LET a == Assign(t, loaded, body, 1)
        table2 == [table EXCEPT ![id] = Flush(table[id], loaded, a.obj)]
    IN  IF a.raised \/ fail THEN Reply(500, table2, {})
        ELSE Reply(200, table2, {Serialize(id, table2[id])})

\* Mutant: the updated object is added to the session as a new row.
UpdateWrite_AddsRow(table, t, id, loaded, body, fail) ==
    LET a == Assign(t, loaded, body, 1)
    IN  IF a.raised \/ fail THEN Reply(500, table, {})
        ELSE LET table2 == [table EXCEPT ![id] = Flush(table[id], loaded, a.obj)]
                 table3 == IF NewIds(table) = {} THEN table2
                           ELSE table @@ ((CHOOSE n \in NewIds(table) : TRUE) :> table2[id])
             IN  Reply(200, table3, {Serialize(id, table2[id])})

\* The try block: assign, commit; KeyError or a failing commit is rolled
\* back, which discards the assignments made so far.
UpdateWrite(table, t, id, loaded, body, fail) ==
    LET a == Assign(t, loaded, body, 1)
    IN  IF a.raised \/ fail THEN Reply(500, table, {})
        ELSE LET table2 == [table EXCEPT ![id] = Flush(table[id], loaded, a.obj)]
             IN  Reply(200, table2, {Serialize(id, table2[id])})

-----------------------------------------------------------------------------
(* delete_*: DELETE /{resource}/{id} *)

\* Mutant: the delete is never committed.
DeleteRow_NoCommit(table, id, fail) ==
    IF ~Exists(table, id) THEN Reply(404, table, {})
    ELSE IF fail THEN Reply(500, table, {})
    ELSE Reply(200, table, {})

\* The try block: delete and commit; a failing commit is rolled back.
DeleteRow(table, id, fail) ==
    IF ~Exists(table, id) THEN Reply(404, table, {})
    ELSE IF fail THEN Reply(500, table, {})
    ELSE Reply(200, [i \in DOMAIN table \ {id} |-> table[i]], {})

-----------------------------------------------------------------------------
(* Requests and responses *)

Req(op, id, key, body) == [op |-> op, id |-> id, key |-> key, body |-> body]

Init ==
    /\ resource \in Types
    /\ db = [t \in Types |-> <<>>]
    /\ assigned = {}
    /\ deleted = {}
    /\ request = Req("none", 0, "", JsonNull)
    /\ response = [status |-> 0, payload |-> {}]
    /\ inflight = EmptyBag
    /\ raced = {}

\* A request served in one piece: the reply r to request q.
Serve(t, q, r) ==
    /\ request' = q
    /\ response' = [status |-> r.status, payload |-> r.payload]
    /\ db' = [db EXCEPT ![t] = r.table]
    /\ assigned' = assigned \cup DOMAIN r.table
    /\ deleted' = IF q.op = "delete" /\ r.status = 200 THEN deleted \cup {q.id}
                  ELSE IF r.status = 201 THEN {}
                  ELSE deleted

Create(t) ==
    /\ resource = t
    /\ \E body \in Bodies(t) :
         LET st == CreateCheck(db[t], t, body)
             q == Req("create", 0, "", body)
         IN  IF st # 0 THEN Serve(t, q, Reply(st, db[t], {}))
             ELSE \E nid \in NewIds(db[t]), fail \in BOOLEAN :
                    Serve(t, q, CreateWrite(db[t], t, body, nid, fail))
    /\ UNCHANGED <<resource, inflight, raced>>

Update(t) ==
    /\ resource = t
    /\ \E id \in Ids, body \in Bodies(t) :
         LET st == UpdateCheck(db[t], t, id, body)
             q == Req("update", id, "", body)
         IN  IF st # 0 THEN Serve(t, q, Reply(st, db[t], {}))
             ELSE \E fail \in BOOLEAN :
                    Serve(t, q, UpdateWrite(db[t], t, id, db[t][id], body, fail))
    /\ UNCHANGED <<resource, inflight, raced>>

Delete(t) ==
    /\ resource = t
    /\ \E id \in Ids, fail \in BOOLEAN :
         Serve(t, Req("delete", id, "", JsonNull), DeleteRow(db[t], id, fail))
    /\ UNCHANGED <<resource, inflight, raced>>

GetById(t) ==
    /\ resource = t
    /\ \E id \in Ids :
         Serve(t, Req("get", id, "", JsonNull),
               IF Exists(db[t], id)
               THEN Reply(200, db[t], {Serialize(id, db[t][id])})
               ELSE Reply(404, db[t], {}))
    /\ UNCHANGED <<resource, inflight, raced>>

GetByUnique(t) ==
    /\ resource = t
    /\ \E v \in {"a", "b"} :
         LET found == FilterBy(db[t], UniqueField(t), v)
             q == Req("get_by", 0, v, JsonNull)
         IN  IF found = {} THEN Serve(t, q, Reply(404, db[t], {}))
             ELSE \E i \in found :
                    Serve(t, q, Reply(200, db[t], {Serialize(i, db[t][i])}))
    /\ UNCHANGED <<resource, inflight, raced>>

GetAll(t) ==
    /\ resource = t
    /\ Serve(t, Req("list", 0, "", JsonNull),
             Reply(200, db[t], {Serialize(i, db[t][i]) : i \in DOMAIN db[t]}))
    /\ UNCHANGED <<resource, inflight, raced>>

get_all_users == GetAll("User")
get_user_by_id == GetById("User")
get_user_by_email == GetByUnique("User")
create_user == Create("User")
update_user == Update("User")
delete_user == Delete("User")

get_all_characters == GetAll("Character")
get_character_by_id == GetById("Character")
get_character_by_name == GetByUnique("Character")
create_character == Create("Character")
update_character == Update("Character")
delete_character == Delete("Character")

get_all_planets == GetAll("Planet")
get_planet_by_id == GetById("Planet")
get_planet_by_name == GetByUnique("Planet")
create_planet == Create("Planet")
update_planet == Update("Planet")
delete_planet == Delete("Planet")

get_all_vehicles == GetAll("Vehicle")
get_vehicle_by_id == GetById("Vehicle")
get_vehicle_by_name == GetByUnique("Vehicle")
create_vehicle == Create("Vehicle")
update_vehicle == Update("Vehicle")
delete_vehicle == Delete("Vehicle")

Next ==
    \/ get_all_users \/ get_user_by_id \/ get_user_by_email
    \/ create_user \/ update_user \/ delete_user
    \/ get_all_characters \/ get_character_by_id \/ get_character_by_name
    \/ create_character \/ update_character \/ delete_character
    \/ get_all_planets \/ get_planet_by_id \/ get_planet_by_name
    \/ create_planet \/ update_planet \/ delete_planet
    \/ get_all_vehicles \/ get_vehicle_by_id \/ get_vehicle_by_name
    \/ create_vehicle \/ update_vehicle \/ delete_vehicle

Spec == Init /\ [][Next]_vars

-----------------------------------------------------------------------------
(* The same handlers, taken in two steps: the database is shared between   *)
(* the workers that serve requests, and another worker's transaction may   *)
(* commit between a handler's look-ups and its own commit.                 *)

\* The bodies sent while handlers overlap: the required fields, each with a
\* truthy value.
RaceBodiesOf ==
    [t \in Types |->
        {b \in Bodies(t) : /\ ~b.isNull
                           /\ DOMAIN b.obj = RequiredFields(t)
                           /\ \A f \in DOMAIN b.obj : ~Falsy(b.obj[f])}]

RaceBodies(t) == RaceBodiesOf[t]

\* A handler stopped before its try block: what it was asked and the row
\* object it loaded (update_*).
Pending(op, id, body, loaded) ==
    [op |-> op, id |-> id, body |-> body, loaded |-> loaded]

\* The stopped handler s ran the filter_by look-up (create_* always does,
\* update_* when the body's value differs from the loaded row's).
Looked(t, s) ==
    \/ s.op = "create"
    \/ /\ Has(s.body, UniqueField(t))
       /\ s.body.obj[UniqueField(t)] # s.loaded[UniqueField(t)]

\* Another handler passed its look-up for v and has not committed yet.
Overlaps(t, v) ==
    \E s \in BagToSet(inflight) : Looked(t, s) /\ s.body.obj[UniqueField(t)] = v

\* create_*, up to the try block
BeginCreate(t) ==
    /\ resource = t
    /\ BagCardinality(inflight) < MaxWorkers
    /\ \E body \in RaceBodies(t) :
         LET st == CreateCheck(db[t], t, body)
             s2 == Pending("create", 0, body, <<>>)
         IN  IF st # 0
             THEN /\ Serve(t, Req("create", 0, "", body), Reply(st, db[t], {}))
                  /\ UNCHANGED <<inflight, raced>>
             ELSE /\ inflight' = inflight (+) SetToBag({s2})
                  /\ raced' = IF Overlaps(t, body.obj[UniqueField(t)])
                              THEN raced \cup {body.obj[UniqueField(t)]}
                              ELSE raced
                  /\ UNCHANGED <<db, assigned, deleted, request, response>>
    /\ UNCHANGED resource

\* create_*, the try block
CommitCreate(t) ==
    /\ resource = t
    /\ \E s \in BagToSet(inflight), nid \in NewIds(db[t]), fail \in BOOLEAN :
         /\ s.op = "create"
         /\ Serve(t, Req("create", 0, "", s.body),
                  CreateWrite(db[t], t, s.body, nid, fail))
         /\ inflight' = inflight (-) SetToBag({s})
    /\ UNCHANGED <<resource, raced>>

\* update_*, up to the try block
BeginUpdate(t) ==
    /\ resource = t
    /\ BagCardinality(inflight) < MaxWorkers
    /\ \E id \in Ids, body \in RaceBodies(t) :
         LET st == UpdateCheck(db[t], t, id, body)
         IN  IF st # 0
             THEN /\ Serve(t, Req("update", id, "", body), Reply(st, db[t], {}))
                  /\ UNCHANGED <<inflight, raced>>
             ELSE LET s2 == Pending("update", id, body, db[t][id])
                  IN  /\ inflight' = inflight (+) SetToBag({s2})
                      /\ raced' = IF /\ Looked(t, s2)
                                     /\ Overlaps(t, body.obj[UniqueField(t)])
                                  THEN raced \cup {body.obj[UniqueField(t)]}
                                  ELSE raced
                      /\ UNCHANGED <<db, assigned, deleted, request, response>>
    /\ UNCHANGED resource

\* update_*, the try block
CommitUpdate(t) ==
    /\ resource = t
    /\ \E s \in BagToSet(inflight), fail \in BOOLEAN :
         /\ s.op = "update"
         /\ Serve(t, Req("update", s.id, "", s.body),
                  UpdateWrite(db[t], t, s.id, s.loaded, s.body, fail))
         /\ inflight' = inflight (-) SetToBag({s})
    /\ UNCHANGED <<resource, raced>>

NextRace ==
    \E t \in Types :
        \/ BeginCreate(t)
        \/ CommitCreate(t)
        \/ BeginUpdate(t)
        \/ CommitUpdate(t)

SpecRace == Init /\ [][NextRace]_vars

-----------------------------------------------------------------------------
(* Properties *)

\* Two committed rows of type t hold the same value in the unique field.
DuplicatesIn(t) ==
    \E i, j \in DOMAIN db[t] :
        i # j /\ db[t][i][UniqueField(t)] = db[t][j][UniqueField(t)]

\* The table the behaviour's requests work on, before and after a step.
Table == db[resource]
UF == UniqueField(resource)

\* The body of the request lacks a required field or gives it a falsy value.
LacksRequired(body) ==
    \E f \in RequiredFields(resource) : ~Has(body, f) \/ Falsy(body.obj[f])

ErrorStatus == {400, 404, 409, 422, 500}

\* C1: served one at a time from an empty store, create, update and delete
\* requests never leave two rows of one entity type with the same value in
\* its unique field.
C1_Unique == \A t \in Types : ~DuplicatesIn(t)

\* C1 witness: two rows are stored and the last request was an update that
\* was accepted and named a value for the unique field.
C1_Witness ==
    /\ Cardinality(DOMAIN Table) = 2
    /\ request.op = "update" /\ response.status = 200
    /\ Has(request.body, UF)

\* C2 as stated: a create request whose unique-field value a stored row holds
\* is answered 409, inserts nothing, and one row with that value remains.
C2_Original ==
    [][(/\ request'.op = "create"
        /\ Has(request'.body, UF)
        /\ FilterBy(Table, UF, request'.body.obj[UF]) # {})
       => /\ response'.status = 409
          /\ db' = db
          /\ Cardinality(FilterBy(Table', UF, request'.body.obj[UF])) = 1]_vars

\* C2 as amended: a create request that gives every required field a
\* non-empty value, and whose unique-field value a stored row holds, is
\* answered 409, inserts nothing, and one row with that value remains.
C2_Conflict ==
    [][(/\ request'.op = "create"
        /\ ~request'.body.isNull
        /\ ~LacksRequired(request'.body)
        /\ FilterBy(Table, UF, request'.body.obj[UF]) # {})
       => /\ response'.status = 409
          /\ db' = db
          /\ Cardinality(FilterBy(Table', UF, request'.body.obj[UF])) = 1]_vars

\* C2 witness: a create was answered 409 and a stored row holds its value.
C2_Witness ==
    /\ request.op = "create" /\ response.status = 409
    /\ Cardinality(FilterBy(Table, UF, request.body.obj[UF])) = 1

\* C3: a create request whose JSON object lacks a required field or gives it
\* an empty value, the object with no fields included, is answered 422 and
\* creates nothing.
C3_Missing422 ==
    [][(/\ request'.op = "create"
        /\ ~request'.body.isNull
        /\ LacksRequired(request'.body))
       => (response'.status = 422 /\ db' = db)]_vars

\* C4: an update of a stored identifier whose non-empty body lacks a required
\* field or gives it an empty value is answered 422 and changes nothing.
C4_UpdateMirrorsCreate ==
    [][(/\ request'.op = "update"
        /\ Exists(Table, request'.id)
        /\ ~BodyFalsy(request'.body)
        /\ LacksRequired(request'.body))
       => (response'.status = 422 /\ db' = db)]_vars

\* C5: a request answered with an error status leaves the store as it was.
C5_ErrorsChangeNothing ==
    [][response'.status \in ErrorStatus => db' = db]_vars

\* C5 witness: an update failed with 500 after the unique field had been
\* assigned a new value on the loaded object (the body lacks the next
\* required key), and the stored row still has the old value.
C5_Witness ==
    /\ request.op = "update" /\ response.status = 500
    /\ Exists(Table, request.id)
    /\ Has(request.body, UF)
    /\ RequiredFields(resource) \ DOMAIN request.body.obj # {}
    /\ Table[request.id][UF] # request.body.obj[UF]

\* C6: after a delete of an identifier was answered 200, and until a record
\* is inserted, a read by id, an update and a delete of that identifier are
\* answered 404; so is a read of an identifier the store never handed out.
C6_GoneStaysGone ==
    [][/\ (request'.op \in {"get", "update", "delete"} /\ request'.id \in deleted)
          => response'.status = 404
       /\ (request'.op = "get" /\ request'.id \notin assigned)
          => response'.status = 404]_vars

\* C6 witness: an update of an identifier deleted earlier was answered 404.
C6_Witness ==
    /\ request.op = "update" /\ request.id \in deleted
    /\ ~BodyFalsy(request.body)
    /\ response.status = 404

\* C7: after an update answered 200 the row holds, for every field the body
\* supplies, the supplied value, and None for every optional field it leaves
\* out; the reply is that row, and so is the reply of a read by id that
\* follows.
C7_UpdateReplaces ==
    [][/\ (request'.op = "update" /\ response'.status = 200)
          => /\ \A f \in DOMAIN request'.body.obj :
                   Table'[request'.id][f] = request'.body.obj[f]
             /\ \A f \in OptionalFields(resource) \ DOMAIN request'.body.obj :
                   Table'[request'.id][f] = None
             /\ response'.payload = {Serialize(request'.id, Table'[request'.id])}
       /\ (/\ request.op = "update" /\ response.status = 200
           /\ request'.op = "get" /\ request'.id = request.id)
          => (response'.status = 200 /\ response'.payload = response.payload)]_vars

\* C7 witness: a read by id follows an accepted update that left the
\* optional fields out, and returns them as None.
C7_Witness ==
    /\ request.op = "get" /\ response.status = 200
    /\ \E r \in response.payload :
         /\ \A f \in OptionalFields(resource) : r.fields[f] = None
         /\ r.fields[UF] = ""

\* C8: an accepted create returns a record whose identifier no other stored
\* record has; an update leaves the identifiers alone; the set of stored
\* identifiers changes only by an accepted create, which adds the returned
\* identifier, or an accepted delete, which removes the deleted one.
C8_Identifiers ==
    [][/\ (request'.op = "create" /\ response'.status = 201)
          => \E r \in response'.payload :
                /\ r.id \notin DOMAIN Table
                /\ DOMAIN Table' = DOMAIN Table \cup {r.id}
                /\ \A i \in DOMAIN Table : Table'[i] = Table[i]
       /\ request'.op = "update" => DOMAIN Table' = DOMAIN Table
       /\ DOMAIN Table' # DOMAIN Table
          => \/ /\ request'.op = "create" /\ response'.status = 201
                /\ Cardinality(DOMAIN Table') = Cardinality(DOMAIN Table) + 1
             \/ /\ request'.op = "delete" /\ response'.status = 200
                /\ request'.id \in DOMAIN Table
                /\ DOMAIN Table' = DOMAIN Table \ {request'.id}]_vars

\* C8 witness: a create was accepted while another record was stored.
C8_Witness ==
    /\ request.op = "create" /\ response.status = 201
    /\ Cardinality(DOMAIN Table) = 2

\* C9: when handlers overlap, two rows come to hold one unique-field value
\* only if two look-ups for that value passed before either handler
\* committed (and the store let the second commit through).
C9_RaceOnly ==
    \A i, j \in DOMAIN Table :
        (i # j /\ Table[i][UF] = Table[j][UF]) => Table[i][UF] \in raced

\* C9 witness: two stored rows hold the same unique-field value.
C9_Witness == DuplicatesIn(resource)

\* C10: an update that names the row's own unique-field value is never
\* answered 409; an update that names the value of another stored row is
\* answered 409 and changes nothing.
C10_OwnValueExcluded ==
    [][(/\ request'.op = "update"
        /\ Exists(Table, request'.id)
        /\ Has(request'.body, UF))
       => /\ request'.body.obj[UF] = Table[request'.id][UF]
             => response'.status # 409
          /\ FilterBy(Table, UF, request'.body.obj[UF]) \ {request'.id} # {}
             => (response'.status = 409 /\ db' = db)]_vars

\* C10 witness: an update naming another row's value was answered 409.
C10_Witness ==
    /\ request.op = "update" /\ response.status = 409
    /\ FilterBy(Table, UF, request.body.obj[UF]) \ {request.id} # {}

=============================================================================
